---- MODULE Spec2Model ----
(***************************************************************************)
(* auto-commit: read the staged diff, ask a chat-completion endpoint for a *)
(* commit message, show it and commit.  The repository holds three         *)
(* variants of the same program:                                           *)
(*   "direct"   src/index.ts lines 1-177     cost check, spinner,          *)
(*                                           press-Enter final prompt      *)
(*   "simple"   src/index.ts lines 179-324   no cost check, no spinner,    *)
(*                                           y/n final prompt              *)
(*   "tempfile" src/unnamed/part_000         as "direct", the diff goes    *)
(*                                           through a temporary file      *)
(* One run of main() is one behaviour.  main() is cut at its blocking      *)
(* points (await, prompt); the code between two of them runs to completion *)
(* and is one action.                                                      *)
(*                                                                         *)
(* Text is a sequence of one-character strings; " " stands for any         *)
(* whitespace character, "a" for any ordinary character and the double     *)
(* quote for itself.                                                       *)
(***************************************************************************)
EXTENDS Integers, Sequences, FiniteSets, TLC

\* ---------------------------------------------------------------- bounds
MaxKeyLen == 1
MaxDiffLen == 1
MaxMsgLen == 3
MaxTicks == 1
MaxChoices == 2

\* ------------------------------------------------------ program constants
\* price of 1000 input tokens, in millionths of a currency unit (0.000150)
PricePer1K == 150
\* confirmation threshold, in millionths of a currency unit (0.01)
CostThreshold == 10000
\* number of glyphs of the spinner
SpinnerLen == 10

Variants == {"direct", "simple", "tempfile"}

\* characters of a key or a diff, and of a completion
PlainChar == {" ", "a"}
Char == {" ", "a", "\""}

StrUpTo(A, n) == UNION {[1..k -> A] : k \in 0..n}

\* token counts the tokenizer may report for a non-empty text
TokenCounts == {66666, 66667}

\* ------------------------------------------------------------ pure helpers
IsSpace(c) == c = " "

RECURSIVE trimStart(_)
trimStart(s) ==
  IF Len(s) > 0 /\ IsSpace(Head(s)) THEN trimStart(Tail(s)) ELSE s

RECURSIVE trimEnd(_)
trimEnd(s) ==
  IF Len(s) > 0 /\ IsSpace(s[Len(s)]) THEN trimEnd(SubSeq(s, 1, Len(s) - 1)) ELSE s

\* String.prototype.trim
trim(s) == trimEnd(trimStart(s))

\* String.prototype.toLowerCase on the characters of a prompt response
lowerChar(c) == IF c = "Y" THEN "y" ELSE c

toLowerCase(s) == [k \in 1..Len(s) |-> lowerChar(s[k])]

\* userInput?.toLowerCase() === 'y'   (null?.toLowerCase() is undefined)
isYes(r) == ~r.null /\ toLowerCase(r.text) = <<"y">>

\* encoder.encode(diff).length
encode(d) == d.tokens

\* calcCost, in units of 10^-9 (tokens / 1000 * 0.000150)
calcCost(d) == encode(d) * PricePer1K

\* cost > 0.01
overThreshold(d) == calcCost(d) > CostThreshold * 1000

\* response.ok taken as "the server answered with less than a server error"
responseOkBelow500(status) == status \in 200..499

\* response.ok
responseOk(status) == status \in 200..299

\* The words sh makes of the text that follows `git commit -m ` in the
\* command line: a double quote opens or closes a quoted stretch, an
\* unquoted blank ends a word.  ok is FALSE when a quote is left open.
RECURSIVE shWords(_, _, _, _, _)
shWords(s, inq, cur, open, words) ==
  IF Len(s) = 0
  THEN [ok |-> ~inq, words |-> IF open THEN Append(words, cur) ELSE words]
  ELSE LET c == Head(s)
           r == Tail(s)
       IN  IF c = "\"" THEN shWords(r, ~inq, cur, TRUE, words)
           ELSE IF c = " " /\ ~inq
                THEN shWords(r, FALSE, <<>>, FALSE,
                             IF open THEN Append(words, cur) ELSE words)
                ELSE shWords(r, inq, Append(cur, c), TRUE, words)

\* `git commit -m "${commitMessage}"` as sh reads it
commitCommand(msg) == shWords(<<"\"">> \o msg \o <<"\"">>, FALSE, <<>>, FALSE, <<>>)

\* ------------------------------------------------------------ input sets
Keys == StrUpTo(PlainChar, MaxKeyLen)
Diffs ==
  {[text |-> <<>>, tokens |-> 0]} \cup
  {[text |-> t, tokens |-> n] : t \in StrUpTo(PlainChar, MaxDiffLen) \ {<<>>}, n \in TokenCounts}
Contents == StrUpTo(Char, MaxMsgLen)

\* what prompt() may return: null at end of input, else the line typed
PromptResponses ==
  {[null |-> TRUE, text |-> <<>>]} \cup
  {[null |-> FALSE, text |-> t] : t \in {<<>>, <<"y">>, <<"Y">>, <<"n">>, <<"y", "n">>}}

\* what the completion endpoint may answer
Responses ==
  {[status |-> 200, statusText |-> "OK"],
   [status |-> 429, statusText |-> "Too Many Requests"],
   [status |-> 500, statusText |-> "Internal Server Error"]}

NoError == [kind |-> "none", status |-> 0, reason |-> ""]
NoAnswer == [asked |-> FALSE, null |-> FALSE, text |-> <<>>]

\* ------------------------------------------------------------------ state
VARIABLES
  variant,      \* which of the three programs runs
  pc,           \* position of main()
  trace,        \* the workflow states main() went through
  exitCode,     \* -1 while running, then the exit status of the process
  out,          \* what was written to the terminal, in order
  lastError,    \* the error main() caught
  apiKeyEnv,    \* process.env.OPENAI_API_KEY as loadApiKey read it
  apiKeyFile,   \* the dotfile as far as loadApiKey looked at it
  apiKey,       \* config.apiKey and where it came from
  diff,         \* the staged diff
  tempFile,     \* the transient diff file exists
  costAnswer,   \* the response to the cost prompt
  requests,     \* the requests sent to the completion endpoint
  timerActive,  \* spinnerInterval is set and not cleared
  i,            \* the spinner's glyph index
  ticks,        \* timer callbacks run so far
  response,     \* status and statusText of the response, status 0 before it arrives
  content,      \* data.choices[0].message.content
  commitMessage,\* the trimmed content
  displayed,    \* the candidate message was printed
  answer,       \* the response to the final prompt
  commitCalls,  \* argument lists of the git commit invocations
  history       \* messages of the commits created

vars == <<variant, pc, trace, exitCode, out, lastError, apiKeyEnv, apiKeyFile, apiKey, diff, tempFile,
          costAnswer, requests, timerActive, i, ticks, response, content,
          commitMessage, displayed, answer, commitCalls, history>>

hasSpinner == variant \in {"direct", "tempfile"}
hasCostCheck == variant \in {"direct", "tempfile"}

\* one line written to the terminal; timer tells whether the spinner's
\* interval was still set when it was written
Line(stream, kind) == [stream |-> stream, kind |-> kind, timer |-> timerActive]

Init ==
  /\ variant \in Variants
  /\ pc = "start"
  /\ trace = <<"Init">>
  /\ exitCode = -1
  /\ out = <<>>
  /\ lastError = NoError
  /\ apiKeyEnv = [read |-> FALSE, set |-> FALSE, value |-> <<>>]
  /\ apiKeyFile = [checked |-> FALSE, exists |-> FALSE, text |-> <<>>]
  /\ apiKey = [loaded |-> FALSE, source |-> "none", value |-> <<>>]
  /\ diff = [have |-> FALSE, text |-> <<>>, tokens |-> 0]
  /\ tempFile = FALSE
  /\ costAnswer = NoAnswer
  /\ requests = <<>>
  /\ timerActive = FALSE
  /\ i = 0
  /\ ticks = 0
  /\ response = [status |-> 0, statusText |-> ""]
  /\ content = <<>>
  /\ commitMessage = <<>>
  /\ displayed = FALSE
  /\ answer = NoAnswer
  /\ commitCalls = <<>>
  /\ history = <<>>

\* ---------------------------------------------------------------- actions
\* catch (error) { console.error('Error:', message); process.exit(1) }
\* steps are the workflow states entered before the error was raised
Fail(err, steps) ==
  /\ out' = Append(out, Line("err", "error"))
  /\ lastError' = err
  /\ exitCode' = 1
  /\ pc' = "done"
  /\ trace' = trace \o steps \o <<"Fail">>

Err(kind) == [kind |-> kind, status |-> 0, reason |-> ""]

\* new Error(`API request failed: ${response.status} ${response.statusText}`)
ApiError(r) == [kind |-> "api", status |-> r.status, reason |-> r.statusText]

\* if (!isGitRepo()) { console.error('Not in a git repository.'); return; }
RepoCheck ==
  /\ pc = "start"
  /\ \E inRepo \in BOOLEAN :
       IF inRepo
       THEN /\ pc' = "loadConfig"
            /\ trace' = Append(trace, "RepoCheck")
            /\ UNCHANGED <<out, exitCode>>
       ELSE /\ out' = Append(out, Line("err", "notRepo"))
            /\ pc' = "done"
            /\ exitCode' = 0
            /\ trace' = trace \o <<"RepoCheck", "Abort">>
  /\ UNCHANGED <<variant, lastError, apiKeyEnv, apiKeyFile, apiKey, diff, tempFile, costAnswer,
                 requests, timerActive, i, ticks, response, content,
                 commitMessage, displayed, answer, commitCalls, history>>

\* loadApiKey up to its first await:
\* const apiKeyEnv = process.env.OPENAI_API_KEY; if (apiKeyEnv) return apiKeyEnv;
LoadEnv ==
  /\ pc = "loadConfig"
  /\ \E set \in BOOLEAN, v \in Keys :
       /\ set \/ v = <<>>
       /\ apiKeyEnv' = [read |-> TRUE, set |-> set, value |-> v]
       /\ IF set /\ Len(v) > 0
          THEN /\ apiKey' = [loaded |-> TRUE, source |-> "env", value |-> v]
               /\ out' = Append(out, Line("out", "keySource"))
               /\ pc' = "getDiff"
          ELSE /\ pc' = "keyExists"
               /\ UNCHANGED <<apiKey, out>>
  /\ trace' = Append(trace, "CredentialLoad")
  /\ UNCHANGED <<variant, exitCode, lastError, apiKeyFile, diff, tempFile, costAnswer,
                 requests, timerActive, i, ticks, response, content, commitMessage,
                 displayed, answer, commitCalls, history>>

\* if (!(await apiKeyFile.exists())) throw new Error('No OpenAI API key found. ...')
KeyFileExists ==
  /\ pc = "keyExists"
  /\ \E exists \in BOOLEAN :
       /\ apiKeyFile' = [checked |-> TRUE, exists |-> exists, text |-> <<>>]
       /\ IF exists
          THEN /\ pc' = "keyText"
               /\ UNCHANGED <<out, lastError, exitCode, trace>>
          ELSE Fail(Err("noKey"), <<>>)
  /\ UNCHANGED <<variant, apiKeyEnv, apiKey, diff, tempFile, costAnswer, requests,
                 timerActive, i, ticks, response, content, commitMessage, displayed,
                 answer, commitCalls, history>>

\* const apiKey = (await apiKeyFile.text()).trim(); return apiKey;
KeyFileText ==
  /\ pc = "keyText"
  /\ \E text \in Keys :
       /\ apiKeyFile' = [apiKeyFile EXCEPT !.text = text]
       /\ apiKey' = [loaded |-> TRUE, source |-> "file", value |-> trim(text)]
  /\ out' = Append(out, Line("out", "keySource"))
  /\ pc' = "getDiff"
  /\ UNCHANGED <<variant, trace, exitCode, lastError, apiKeyEnv, diff, tempFile,
                 costAnswer, requests, timerActive, i, ticks, response, content,
                 commitMessage, displayed, answer, commitCalls, history>>

\* getGitDiff of "direct" and "simple": execSync('git diff --cached')
GetDiff ==
  /\ pc = "getDiff"
  /\ variant # "tempfile"
  /\ \E ok \in BOOLEAN, d \in Diffs :
       IF ok
       THEN /\ diff' = [have |-> TRUE, text |-> d.text, tokens |-> d.tokens]
            /\ pc' = IF hasCostCheck THEN "costCheck" ELSE "emptyCheck"
            /\ trace' = Append(trace, "DiffAcquire")
            /\ UNCHANGED <<out, lastError, exitCode>>
       ELSE /\ Fail(Err("diff"), <<"DiffAcquire">>)
            /\ UNCHANGED diff
  /\ UNCHANGED <<variant, apiKeyEnv, apiKeyFile, apiKey, tempFile, costAnswer, requests,
                 timerActive, i, ticks, response, content, commitMessage,
                 displayed, answer, commitCalls, history>>

\* getGitDiff of "tempfile": execSync(`git diff --cached --unified=500
\* --output=${filename}`).  git opens the output file while it reads its
\* options, so a failing git may or may not have created it.
DiffExec ==
  /\ pc = "getDiff"
  /\ variant = "tempfile"
  /\ \E ok \in BOOLEAN, created \in BOOLEAN :
       IF ok
       THEN /\ tempFile' = TRUE
            /\ pc' = "diffRead"
            /\ trace' = Append(trace, "DiffAcquire")
            /\ UNCHANGED <<out, lastError, exitCode>>
       ELSE /\ tempFile' = created
            /\ Fail(Err("diff"), <<"DiffAcquire">>)
  /\ UNCHANGED <<variant, apiKeyEnv, apiKeyFile, apiKey, diff, costAnswer, requests,
                 timerActive, i, ticks, response, content, commitMessage,
                 displayed, answer, commitCalls, history>>

\* const diff = await Bun.file(filename).text();
DiffRead ==
  /\ pc = "diffRead"
  /\ \E ok \in BOOLEAN, d \in Diffs :
       IF ok
       THEN /\ diff' = [have |-> FALSE, text |-> d.text, tokens |-> d.tokens]
            /\ pc' = "diffDelete"
            /\ UNCHANGED <<out, lastError, exitCode, trace>>
       ELSE /\ Fail(Err("diff"), <<>>)
            /\ UNCHANGED diff
  /\ UNCHANGED <<variant, apiKeyEnv, apiKeyFile, apiKey, tempFile, costAnswer, requests,
                 timerActive, i, ticks, response, content, commitMessage,
                 displayed, answer, commitCalls, history>>

\* await Bun.file(filename).delete(); return diff;
DiffDelete ==
  /\ pc = "diffDelete"
  /\ \E ok \in BOOLEAN :
       IF ok
       THEN /\ tempFile' = FALSE
            /\ diff' = [diff EXCEPT !.have = TRUE]
            /\ pc' = "costCheck"
            /\ UNCHANGED <<out, lastError, exitCode, trace>>
       ELSE /\ Fail(Err("diff"), <<>>)
            /\ UNCHANGED <<tempFile, diff>>
  /\ UNCHANGED <<variant, apiKeyEnv, apiKeyFile, apiKey, costAnswer, requests, timerActive,
                 i, ticks, response, content, commitMessage, displayed, answer,
                 commitCalls, history>>

\* debugLog(length); const cost = calcCost(diff); debugLog(cost);
\* if (cost > 0.01) { console.log(warning); prompt(...) }
CostCheck ==
  /\ pc = "costCheck"
  /\ IF overThreshold(diff)
     THEN /\ out' = out \o <<Line("out", "diffLength"), Line("out", "estimatedCost"),
                             Line("out", "costWarning")>>
          /\ pc' = "costPrompt"
     ELSE /\ out' = out \o <<Line("out", "diffLength"), Line("out", "estimatedCost")>>
          /\ pc' = "emptyCheck"
  /\ trace' = Append(trace, "CostCheck")
  /\ UNCHANGED <<variant, exitCode, lastError, apiKeyEnv, apiKeyFile, apiKey, diff, tempFile,
                 costAnswer, requests, timerActive, i, ticks, response, content,
                 commitMessage, displayed, answer, commitCalls, history>>

\* const userInput = prompt('Do you want to proceed? (y/N): ');
\* if (userInput?.toLowerCase() !== 'y') { console.log('Operation cancelled.'); return; }
CostPrompt ==
  /\ pc = "costPrompt"
  /\ \E r \in PromptResponses :
       /\ costAnswer' = [asked |-> TRUE, null |-> r.null, text |-> r.text]
       /\ IF isYes(r)
          THEN /\ pc' = "emptyCheck"
               /\ UNCHANGED <<out, exitCode, trace>>
          ELSE /\ out' = Append(out, Line("out", "cancelled"))
               /\ pc' = "done"
               /\ exitCode' = 0
               /\ trace' = Append(trace, "AbortOnCost")
  /\ UNCHANGED <<variant, lastError, apiKeyEnv, apiKeyFile, apiKey, diff, tempFile, requests,
                 timerActive, i, ticks, response, content, commitMessage,
                 displayed, answer, commitCalls, history>>

\* if (!diff.trim()) { console.log('No changes to commit...'); return; }
\* then setInterval(...) and the fetch of generateCommitMessage
EmptyCheck ==
  /\ pc = "emptyCheck"
  /\ IF Len(trim(diff.text)) = 0
     THEN /\ out' = Append(out, Line("out", "noChanges"))
          /\ pc' = "done"
          /\ exitCode' = 0
          /\ trace' = Append(trace, "NoOpExit")
          /\ UNCHANGED <<requests, timerActive>>
     ELSE /\ timerActive' = hasSpinner
          /\ out' = IF hasSpinner THEN out ELSE Append(out, Line("out", "generating"))
          /\ requests' = Append(requests, [auth |-> apiKey.value, diff |-> diff.text])
          /\ pc' = "awaitFetch"
          /\ trace' = Append(trace, "Generate")
          /\ UNCHANGED exitCode
  /\ UNCHANGED <<variant, lastError, apiKeyEnv, apiKeyFile, apiKey, diff, tempFile, costAnswer,
                 i, ticks, response, content, commitMessage, displayed, answer,
                 commitCalls, history>>

\* the setInterval callback; it runs only while main() is suspended in an await
Tick ==
  /\ pc \in {"awaitFetch", "awaitJson"}
  /\ timerActive
  /\ ticks < MaxTicks
  /\ out' = Append(out, Line("out", "spin"))
  /\ i' = (i + 1) % SpinnerLen
  /\ ticks' = ticks + 1
  /\ UNCHANGED <<variant, pc, trace, exitCode, lastError, apiKeyEnv, apiKeyFile, apiKey, diff,
                 tempFile, costAnswer, requests, timerActive, response, content,
                 commitMessage, displayed, answer, commitCalls, history>>

\* the fetch settles: it rejects, or a response arrives;
\* if (!response.ok) throw new Error(`API request failed: ...`)
FetchSettle ==
  /\ pc = "awaitFetch"
  /\ \/ /\ Fail(Err("network"), <<>>)
        /\ UNCHANGED response
     \/ \E r \in Responses :
          /\ response' = r
          /\ IF responseOk(r.status)
             THEN /\ pc' = "awaitJson"
                  /\ UNCHANGED <<out, lastError, exitCode, trace>>
             ELSE Fail(ApiError(r), <<>>)
  /\ UNCHANGED <<variant, apiKeyEnv, apiKeyFile, apiKey, diff, tempFile, costAnswer, requests,
                 timerActive, i, ticks, content, commitMessage, displayed, answer,
                 commitCalls, history>>

\* what main() prints once generateCommitMessage has returned
presentLines ==
  IF hasSpinner
  THEN <<[stream |-> "out", kind |-> "clearLine", timer |-> FALSE],
         [stream |-> "out", kind |-> "proposed", timer |-> FALSE],
         [stream |-> "out", kind |-> "message", timer |-> FALSE]>>
  ELSE <<[stream |-> "out", kind |-> "message", timer |-> FALSE]>>

\* const data = await response.json();
\* return data.choices[0].message.content.trim();
\* then clearInterval(spinnerInterval), '\r' and the proposed message
JsonSettle ==
  /\ pc = "awaitJson"
  /\ \E parsed \in BOOLEAN, n \in 0..MaxChoices, first \in Contents, other \in {<<>>, <<"a">>} :
       LET choices == [k \in 1..n |-> IF k = 1 THEN first ELSE other] IN
       IF parsed /\ Len(choices) > 0
       THEN /\ content' = choices[1]
            /\ commitMessage' = trim(choices[1])
            /\ timerActive' = FALSE
            /\ out' = out \o presentLines
            /\ displayed' = TRUE
            /\ pc' = "finalPrompt"
            /\ trace' = Append(trace, "Present")
            /\ UNCHANGED <<lastError, exitCode>>
       ELSE /\ Fail(Err(IF parsed THEN "type" ELSE "json"), <<>>)
            /\ UNCHANGED <<content, commitMessage, timerActive, displayed>>
  /\ UNCHANGED <<variant, apiKeyEnv, apiKeyFile, apiKey, diff, tempFile, costAnswer, requests,
                 i, ticks, response, answer, commitCalls, history>>

\* "direct", "tempfile": prompt("Press Enter to commit ..."), result unused
\* "simple": if (userInput?.toLowerCase() === 'y')
proceeds(r) == hasSpinner \/ isYes(r)

\* the final prompt returns, then execSync(`git commit -m "${commitMessage}"`)
FinalPrompt ==
  /\ pc = "finalPrompt"
  /\ \E r \in PromptResponses, gitOk \in BOOLEAN :
       LET cmd == commitCommand(commitMessage) IN
       /\ answer' = [asked |-> TRUE, null |-> r.null, text |-> r.text]
       /\ IF ~proceeds(r)
          THEN /\ pc' = "done"
               /\ exitCode' = 0
               /\ trace' = Append(trace, "Cancel")
               /\ UNCHANGED <<out, lastError, commitCalls, history>>
          ELSE IF ~cmd.ok
          THEN /\ Fail(Err("shell"), <<"Commit">>)
               /\ UNCHANGED <<commitCalls, history>>
          ELSE /\ commitCalls' = Append(commitCalls, cmd.words)
               /\ IF gitOk
                  THEN /\ history' = Append(history, cmd.words[1])
                       /\ out' = IF hasSpinner
                                 THEN out \o <<Line("out", "committed"), Line("out", "message")>>
                                 ELSE out
                       /\ pc' = "done"
                       /\ exitCode' = 0
                       /\ trace' = trace \o <<"Commit", "Done">>
                       /\ UNCHANGED lastError
                  ELSE /\ Fail(Err("commit"), <<"Commit">>)
                       /\ UNCHANGED history
  /\ UNCHANGED <<variant, apiKeyEnv, apiKeyFile, apiKey, diff, tempFile, costAnswer, requests,
                 timerActive, i, ticks, response, content, commitMessage, displayed>>

\* Ctrl+C at "Press Enter to commit with this message, or Ctrl+C to cancel."
Interrupt ==
  /\ pc = "finalPrompt"
  /\ hasSpinner
  /\ pc' = "done"
  /\ exitCode' = 130
  /\ trace' = Append(trace, "Cancel")
  /\ UNCHANGED <<variant, out, lastError, apiKeyEnv, apiKeyFile, apiKey, diff, tempFile,
                 costAnswer, requests, timerActive, i, ticks, response, content,
                 commitMessage, displayed, answer, commitCalls, history>>

Next ==
  \/ RepoCheck
  \/ LoadEnv
  \/ KeyFileExists
  \/ KeyFileText
  \/ GetDiff
  \/ DiffExec
  \/ DiffRead
  \/ DiffDelete
  \/ CostCheck
  \/ CostPrompt
  \/ EmptyCheck
  \/ Tick
  \/ FetchSettle
  \/ JsonSettle
  \/ FinalPrompt
  \/ Interrupt

Spec == Init /\ [][Next]_vars

\* ----------------------------------------------------------------- claims
Last(s) == s[Len(s)]
Visited(st) == \E k \in 1..Len(trace) : trace[k] = st
Finished == pc = "done"
EmptyDiff == Len(trim(diff.text)) = 0
NoNetworkNoCommit == requests = <<>> /\ commitCalls = <<>> /\ history = <<>>

\* C1: a run whose staged diff is empty or whitespace-only issues no network
\* call and no commit, and ends in the "nothing to commit" terminal state.
C1_EmptyDiffIsNoOp ==
  (diff.have /\ EmptyDiff) =>
     /\ NoNetworkNoCommit
     /\ Finished => Last(trace) = "NoOpExit"

\* C2: a run whose diff costs more than 0.01 issues its network call only
\* after an affirmative answer to the cost prompt, and any other answer ends
\* the run with no network call and no commit.
C2_CostConfirmation ==
  (diff.have /\ encode(diff) * PricePer1K > CostThreshold * 1000) =>
     /\ requests # <<>> => (costAnswer.asked /\ isYes(costAnswer))
     /\ (costAnswer.asked /\ ~isYes(costAnswer)) => (Finished /\ NoNetworkNoCommit)

\* C3: when the answer to the final confirmation is negative ('n') or absent
\* (end of input), the commit operation is not invoked and the history is
\* unchanged.
C3_DeclineLeavesHistory ==
  (answer.asked /\ (answer.null \/ toLowerCase(answer.text) = <<"n">>)) =>
     /\ commitCalls = <<>>
     /\ history = <<>>

\* C4: when the completion endpoint answers with a non-success status, the
\* run fails (exit status 1) with an error that carries the status code and
\* the reason text, printed to the error stream, and git commit is never
\* invoked.
C4_NonSuccessFails ==
  (response.status # 0 /\ response.status \notin 200..299) =>
     /\ Finished
     /\ exitCode = 1
     /\ lastError = [kind |-> "api", status |-> response.status,
                     reason |-> response.statusText]
     /\ Last(out).kind = "error" /\ Last(out).stream = "err"
     /\ commitCalls = <<>>
     /\ history = <<>>

\* a 429 arrived and the run has failed with it
C4_Witness ==
  /\ response.status = 429
  /\ Finished
  /\ lastError.kind = "api"
  /\ lastError.reason = "Too Many Requests"

\* C5: credential resolution returns the environment variable when it is set
\* and non-empty, otherwise the trimmed dotfile; it fails with the
\* missing-credential error when the variable is unset or empty and the
\* dotfile is missing, empty or whitespace-only; it never returns an empty key.
C5_CredentialResolution ==
  LET envYields == apiKeyEnv.set /\ Len(apiKeyEnv.value) > 0
      resolved == apiKeyEnv.read /\ pc \notin {"keyExists", "keyText"}
      fileYields == apiKeyFile.exists /\ Len(trim(apiKeyFile.text)) > 0
  IN  /\ (resolved /\ envYields) =>
             (apiKey.loaded /\ apiKey.value = apiKeyEnv.value)
      /\ (resolved /\ ~envYields /\ fileYields) =>
             (apiKey.loaded /\ apiKey.value = trim(apiKeyFile.text))
      /\ (resolved /\ ~envYields /\ ~fileYields) =>
             (~apiKey.loaded /\ lastError.kind = "noKey")
      /\ apiKey.loaded => Len(apiKey.value) > 0

\* C6: when the repository check says "not a repository", the run prints a
\* message, ends with a non-zero exit status and does nothing else.
C6_NotARepoAborts ==
  Visited("Abort") =>
     /\ Finished
     /\ exitCode # 0
     /\ \E k \in 1..Len(out) : out[k].kind = "notRepo"
     /\ ~apiKeyEnv.read /\ ~apiKey.loaded /\ ~diff.have
     /\ NoNetworkNoCommit

\* C7: once the network call has settled, with success or with failure, the
\* timer is cancelled and the indicator line cleared before anything else is
\* written, and no timer tick follows.
C7_SpinnerStopsOnSettle ==
  LET settled == requests # <<>> /\ pc \notin {"awaitFetch", "awaitJson"}
      after == {k \in 1..Len(out) : out[k].kind \in {"error", "proposed", "message"}}
  IN  (hasSpinner /\ settled) =>
        /\ \A k \in after :
             /\ ~out[k].timer
             /\ \E c \in 1..k : out[c].kind = "clearLine"
        /\ \A k \in 1..Len(out) :
             out[k].kind = "spin" => \A j \in after : k < j

\* the workflow's state machine, as pairs (state, next state)
StateMachine ==
  {<<"Init", "RepoCheck">>, <<"RepoCheck", "Abort">>, <<"RepoCheck", "CredentialLoad">>,
   <<"CredentialLoad", "DiffAcquire">>, <<"DiffAcquire", "NoOpExit">>,
   <<"DiffAcquire", "CostCheck">>, <<"CostCheck", "AbortOnCost">>,
   <<"CostCheck", "Generate">>, <<"Generate", "Fail">>, <<"Generate", "Present">>,
   <<"Present", "Cancel">>, <<"Present", "Commit">>, <<"Commit", "Done">>,
   <<"CredentialLoad", "Fail">>, <<"DiffAcquire", "Fail">>, <<"Commit", "Fail">>}

\* C8: every run goes through the workflow states in the order of the state
\* machine; no run with an empty or whitespace-only diff enters the cost
\* prompt, and no run reaches Generate without having passed the cost check.
C8_StateMachineOrder ==
  /\ \A k \in 1..(Len(trace) - 1) : <<trace[k], trace[k + 1]>> \in StateMachine
  /\ (costAnswer.asked \/ pc = "costPrompt") => ~EmptyDiff
  /\ Visited("Generate") => Visited("CostCheck")

\* C9: in the temporary-file variant, once diff acquisition has finished, by
\* returning the diff or by raising the diff-retrieval error, the transient
\* diff file does not exist.
C9_TempFileRemoved ==
  (variant = "tempfile" /\ Visited("DiffAcquire")
     /\ pc \notin {"getDiff", "diffRead", "diffDelete"}) => ~tempFile

\* C10: a run issues at most one network request and at most one commit; a
\* commit is invoked only after the network call succeeded, the message was
\* displayed and the final prompt returned, and the message it is given is
\* exactly the trimmed content of the first completion choice.
C10_OneRequestOneCommit ==
  /\ Len(requests) <= 1
  /\ Len(commitCalls) <= 1
  /\ commitCalls # <<>> =>
       /\ response.status \in 200..299
       /\ displayed
       /\ answer.asked
       /\ commitCalls[1] = <<trim(content)>>

====
